---- MODULE Spec2Model ----
(***************************************************************************)
(* A model of wordplay.py: the Wordplay class (dictionary index, mutate,   *)
(* trie decoder, selection, stylize) and one get_wordplay call.            *)
(*                                                                         *)
(* Strings are sequences of one-character strings, so that normalize and   *)
(* stylize are computed character by character.  A Python value that may   *)
(* be None is a record [kind, val].                                        *)
(***************************************************************************)
EXTENDS Integers, Sequences, FiniteSets, TLC

VARIABLES
    word_phoneme_map,   \* self.word_phoneme_map : word -> list of variants
    phoneme_word_trie,  \* self.phoneme_word_trie : node path -> terminal word list
    phoneme_type_map,   \* self.phoneme_type_map : phoneme -> type
    type_phoneme_map,   \* self.type_phoneme_map : type -> list of phonemes
    pc,                 \* position inside load_cmudict / get_wordplay
    words,              \* get_wordplay: words (tokens of the line)
    norm_words,         \* get_wordplay: norm_words
    num_mutations,      \* get_wordplay: num_mutations (mutate's argument)
    phonemes,           \* get_wordplay: phonemes (None or a list)
    num_tries,          \* get_wordplay: num_tries
    new_words,          \* get_wordplay: new_words (None or a list)
    mutated_phonemes,   \* mutate: mutated_phonemes
    mut_left,           \* mutate: its local countdown of num_mutations
    words_set,          \* phonemes_to_words: words_set
    index_pairs,        \* stylize: index_pairs
    result,             \* what get_wordplay returned or raised
    max_tries,          \* history: num_tries as passed by the caller
    attempts            \* history: number of mutate calls made by the loop

vars == <<word_phoneme_map, phoneme_word_trie, phoneme_type_map,
          type_phoneme_map, pc, words, norm_words, num_mutations, phonemes,
          num_tries, new_words, mutated_phonemes, mut_left, words_set,
          index_pairs, result, max_tries, attempts>>

index_vars == <<word_phoneme_map, phoneme_word_trie, phoneme_type_map,
                type_phoneme_map>>

-----------------------------------------------------------------------------
(* Bounds *)

MaxWords == 2
MaxTries == 2
MaxLen == 3
MaxCount == 2

-----------------------------------------------------------------------------
(* Generic helpers *)

Range(s) == {s[i] : i \in 1..Len(s)}

Min(a, b) == IF a < b THEN a ELSE b

Max(a, b) == IF a > b THEN a ELSE b

SeqsUpTo(S, lo, hi) == UNION {[1..n -> S] : n \in lo..hi}

Perms(S) == {p \in [1..Cardinality(S) -> S] : Range(p) = S}

None == [kind |-> "None", val |-> <<>>]

Some(v) == [kind |-> "list", val |-> v]

Str(v) == [kind |-> "str", val |-> v]

Raised(e) == [kind |-> e, val |-> <<>>]

\* Python truthiness of None / list / str: `not x`
Falsy(x) == x.kind = "None" \/ x.val = <<>>

EmptyMap == [x \in {} |-> <<>>]

-----------------------------------------------------------------------------
(* Characters *)

LowerCase == <<"a", "b">>

UpperCase == <<"A", "B">>

IsLower(c) == \E i \in 1..Len(LowerCase) : LowerCase[i] = c

IsUpper(c) == \E i \in 1..Len(UpperCase) : UpperCase[i] = c

IsAlpha(c) == IsLower(c) \/ IsUpper(c)

upper_char(c) ==
    IF IsLower(c)
    THEN UpperCase[CHOOSE i \in 1..Len(LowerCase) : LowerCase[i] = c]
    ELSE c

lower_char(c) ==
    IF IsUpper(c)
    THEN LowerCase[CHOOSE i \in 1..Len(UpperCase) : UpperCase[i] = c]
    ELSE c

upper(s) == [i \in 1..Len(s) |-> upper_char(s[i])]

lower(s) == [i \in 1..Len(s) |-> lower_char(s[i])]

\* the class [A-Za-z_'-] that normalize_words keeps
IsWordChar(c) == IsAlpha(c) \/ c \in {"_", "'", "-"}

-----------------------------------------------------------------------------
(* Dictionaries: the two tables load_cmudict reads, as rows of terms *)

Phones3 == << <<"K", "stop">>, <<"B", "stop">>, <<"E", "vowel">> >>

Phones1 == << <<"K", "any">>, <<"B", "any">>, <<"E", "any">> >>

wA == <<"A">>

wB == <<"B">>

wAB == <<"A", "B">>

DictCatBat ==
    [rows |-> << <<wA, <<"K", "E">> >>, <<wB, <<"B", "E">> >> >>,
     phones |-> Phones3]

DictHomophone ==
    [rows |-> << <<wA, <<"E">> >>, <<wB, <<"E">> >>,
                 <<wAB, <<"K">> >>, <<wAB, <<"B">> >> >>,
     phones |-> Phones3]

DictPrefix ==
    [rows |-> << <<wA, <<"K">> >>, <<wB, <<"B">> >>,
                 <<wAB, <<"K", "B", "K">> >> >>,
     phones |-> Phones3]

DictChoice ==
    [rows |-> << <<wA, <<"K">> >>, <<wB, <<"K">> >>,
                 <<wAB, <<"K", "B">> >> >>,
     phones |-> Phones1]

Dictionaries == {DictCatBat, DictHomophone, DictPrefix, DictChoice}

Phonemes == {"K", "B", "E"}

Vocabulary == {wA, wB, wAB}

Tokens == {<<"a">>, <<"B">>, <<"a", "b">>, <<"A", "B">>, <<"A", "!">>, <<"!">>}

\* re.split('\s+', line.strip()): a blank line gives [''], any other line its
\* non-empty whitespace-free tokens
Lines == SeqsUpTo(Tokens, 1, MaxWords) \cup { << <<>> >> }

-----------------------------------------------------------------------------
(* PhoneticIndex construction *)

\* build_word_phoneme_map: each row appends its phonemes to its word's list
RECURSIVE build_word_phoneme_map(_, _)
build_word_phoneme_map(rows, map) ==
    IF rows = <<>> THEN map
    ELSE LET word == Head(rows)[1]
             phs == Head(rows)[2]
             map1 == IF word \in DOMAIN map THEN map ELSE map @@ (word :> <<>>)
         IN build_word_phoneme_map(Tail(rows),
                [map1 EXCEPT ![word] = Append(@, phs)])

\* build_phoneme_word_trie_recurse_term: a node is named by its path from the
\* root; trie[path] is the node's '*' list (<<>> when the node has no '*')
RECURSIVE build_phoneme_word_trie_recurse_term(_, _, _, _)
build_phoneme_word_trie_recurse_term(trie, root, phs, word) ==
    LET next_phoneme == Head(phs)
        new_root == Append(root, next_phoneme)
        trie1 == IF new_root \in DOMAIN trie THEN trie
                 ELSE trie @@ (new_root :> <<>>)
    IN IF Len(Tail(phs)) > 0
       THEN build_phoneme_word_trie_recurse_term(trie1, new_root, Tail(phs), word)
       ELSE [trie1 EXCEPT ![new_root] = Append(@, word)]

RECURSIVE build_trie_variants(_, _, _)
build_trie_variants(trie, phonemes_set, word) ==
    IF phonemes_set = <<>> THEN trie
    ELSE build_trie_variants(
            build_phoneme_word_trie_recurse_term(trie, <<>>, Head(phonemes_set), word),
            Tail(phonemes_set), word)

\* build_phoneme_word_trie: `order` is the iteration order of the dict
RECURSIVE build_phoneme_word_trie(_, _, _)
build_phoneme_word_trie(trie, map, order) ==
    IF order = <<>> THEN trie
    ELSE build_phoneme_word_trie(
            build_trie_variants(trie, map[Head(order)], Head(order)),
            map, Tail(order))

\* build_phoneme_maps, first map: a later row for a phoneme overwrites
RECURSIVE build_phoneme_type_map(_, _)
build_phoneme_type_map(rows, map) ==
    IF rows = <<>> THEN map
    ELSE LET ph == Head(rows)[1]
             ty == Head(rows)[2]
         IN build_phoneme_type_map(Tail(rows),
                [x \in DOMAIN map \cup {ph} |-> IF x = ph THEN ty ELSE map[x]])

\* build_phoneme_maps, second map: every row appends to its type's list
RECURSIVE build_type_phoneme_map(_, _)
build_type_phoneme_map(rows, map) ==
    IF rows = <<>> THEN map
    ELSE LET ph == Head(rows)[1]
             ty == Head(rows)[2]
             map1 == IF ty \in DOMAIN map THEN map ELSE map @@ (ty :> <<>>)
         IN build_type_phoneme_map(Tail(rows),
                [map1 EXCEPT ![ty] = Append(@, ph)])

\* load_cmudict: the four maps built from one dictionary
BuildIndex(d, order) ==
    LET wpm == build_word_phoneme_map(d.rows, EmptyMap)
    IN [wpm |-> wpm,
        trie |-> build_phoneme_word_trie(EmptyMap, wpm, order),
        ptm |-> build_phoneme_type_map(d.phones, EmptyMap),
        tpm |-> build_type_phoneme_map(d.phones, EmptyMap)]

\* the iteration orders `for word in word_phoneme_map` can have
DictOrders(d) == Perms({d.rows[i][1] : i \in 1..Len(d.rows)})

Indexes == UNION {{BuildIndex(d, order) : order \in DictOrders(d)} : d \in Dictionaries}

-----------------------------------------------------------------------------
(* Normalizer, Sequencer *)

normalize_word(word) == upper(SelectSeq(word, IsWordChar))

normalize_words(ws) == [i \in 1..Len(ws) |-> normalize_word(ws[i])]

\* the set of values get_phonemes can return, over its random.choice calls
RECURSIVE get_phonemes_from(_, _)
get_phonemes_from(ws, acc) ==
    IF ws = <<>> THEN {Some(acc)}
    ELSE IF Head(ws) \notin DOMAIN word_phoneme_map THEN {None}
    ELSE UNION {get_phonemes_from(Tail(ws), acc \o v) :
                    v \in Range(word_phoneme_map[Head(ws)])}

\* get_phonemes with `continue` in place of `return None`
get_phonemes_skipping(ws) ==
    LET Known(w) == w \in DOMAIN word_phoneme_map
    IN get_phonemes_from(SelectSeq(ws, Known), <<>>)

get_phonemes(ws) == get_phonemes_from(ws, <<>>)

-----------------------------------------------------------------------------
(* Mutator *)

\* mutate without the copy: the list edited by the previous attempt is reused
ListAliased(l) == IF attempts > 0 THEN mutated_phonemes ELSE l

\* mutate, line 55: the working copy
ListCopy(l) == l

RemoveAt(s, i) == SubSeq(s, 1, i - 1) \o SubSeq(s, i + 1, Len(s))

\* mutate's edit inserting the drawn phoneme instead of overwriting
MutateEditInserting(mp, idx, pick) ==
    LET type == phoneme_type_map[mp[idx]]
    IN IF Len(type_phoneme_map[type]) = 1
       THEN RemoveAt(mp, idx)
       ELSE SubSeq(mp, 1, idx) \o <<pick>> \o SubSeq(mp, idx + 1, Len(mp))

\* mutate's edit deleting whenever the drawn phoneme is the current one
MutateEditDeletingNoop(mp, idx, pick) ==
    LET type == phoneme_type_map[mp[idx]]
    IN IF Len(type_phoneme_map[type]) = 1 \/ pick = mp[idx]
       THEN RemoveAt(mp, idx)
       ELSE [mp EXCEPT ![idx] = pick]

\* one iteration of mutate's loop at 1-based position idx, with `pick` the
\* value random.choice(self.type_phoneme_map[type]) draws
MutateEdit(mp, idx, pick) ==
    LET type == phoneme_type_map[mp[idx]]
    IN IF Len(type_phoneme_map[type]) = 1
       THEN RemoveAt(mp, idx)
       ELSE [mp EXCEPT ![idx] = pick]

\* the values random.choice can draw for position idx
MutateChoices(mp, idx) == Range(type_phoneme_map[phoneme_type_map[mp[idx]]])

-----------------------------------------------------------------------------
(* Decoder, Selector *)

\* pick_word returning the matching original word instead of the node's word
pick_word_from_norm(potential_words, norm) ==
    IF Len(norm) > 0 THEN Range(norm) ELSE Range(potential_words)

\* the values pick_word can return
pick_word(potential_words, norm) ==
    LET hits == {i \in 1..Len(potential_words) : potential_words[i] \in Range(norm)}
    IN IF hits # {}
       THEN {potential_words[CHOOSE i \in hits : \A k \in hits : i <= k]}
       ELSE Range(potential_words)

\* the lists phonemes_to_words_recurse can append to words_set, over the
\* random choices of pick_word; phs is non-empty
RECURSIVE phonemes_to_words_recurse(_, _, _, _)
phonemes_to_words_recurse(root, phs, ws, norm) ==
    LET next_phoneme == Head(phs)
        rest == Tail(phs)
        new_root == Append(root, next_phoneme)
    IN IF new_root \notin DOMAIN phoneme_word_trie THEN { <<>> }
       ELSE LET next_words ==
                    IF phoneme_word_trie[new_root] # <<>>
                    THEN {Some(w) : w \in pick_word(phoneme_word_trie[new_root], norm)}
                    ELSE {None}
            IN UNION {
                 IF Len(rest) = 0
                 THEN IF nw.kind # "None" THEN { <<Append(ws, nw.val)>> } ELSE { <<>> }
                 ELSE LET committed ==
                              IF nw.kind # "None"
                              THEN phonemes_to_words_recurse(<<>>, rest, Append(ws, nw.val), norm)
                              ELSE { <<>> }
                          continued == phonemes_to_words_recurse(new_root, rest, ws, norm)
                      IN {a \o b : a \in committed, b \in continued}
                 : nw \in next_words }

pick_words_score(ws, norm) == Cardinality({i \in 1..Len(ws) : ws[i] \in Range(norm)})

\* the values pick_words can return: after the shuffle, the stable sort by
\* descending score puts any one of the best-scoring elements first
pick_words(set, norm) ==
    {set[i] : i \in {k \in 1..Len(set) :
        \A m \in 1..Len(set) : pick_words_score(set[m], norm) <= pick_words_score(set[k], norm)}}

-----------------------------------------------------------------------------
(* Stylizer *)

\* stylize's alignment testing the first position before the last
stylize_index_first(i, num_words, num_orig_words) ==
    IF i = 0 THEN 0
    ELSE IF i = num_words - 1 THEN num_orig_words - 1
    ELSE Min(i, num_orig_words - 2)

\* stylize, lines 129-134, for the 0-based position i
stylize_index(i, num_words, num_orig_words) ==
    IF i = num_words - 1 THEN num_orig_words - 1
    ELSE IF i = 0 THEN 0
    ELSE Min(i, num_orig_words - 2)

stylize_index_pairs(num_words, num_orig_words) ==
    [k \in 1..num_words |-> <<k - 1, stylize_index(k - 1, num_words, num_orig_words)>>]

\* Python's list[j] for -len <= j < len
PyIndex(s, j) == IF j < 0 THEN s[Len(s) + j + 1] ELSE s[j + 1]

\* re.search('[^A-Za-z]+$', orig_word): the longest non-alphabetic suffix
RECURSIVE trailing_punctuation(_)
trailing_punctuation(w) ==
    IF w = <<>> \/ IsAlpha(w[Len(w)]) THEN <<>>
    ELSE Append(trailing_punctuation(SubSeq(w, 1, Len(w) - 1)), w[Len(w)])

stylize_word(w, orig_word) ==
    LET low == lower(w)
        cased == IF Len(orig_word) > 1 /\ orig_word = upper(orig_word)
                 THEN upper(low)
                 ELSE IF IsUpper(orig_word[1])
                 THEN <<upper_char(low[1])>> \o Tail(low)
                 ELSE low
    IN cased \o trailing_punctuation(orig_word)

stylize(ws, orig_words) ==
    LET pairs == stylize_index_pairs(Len(ws), Len(orig_words))
    IN [k \in 1..Len(ws) |->
            stylize_word(ws[pairs[k][1] + 1], PyIndex(orig_words, pairs[k][2]))]

\* ' '.join(...)
RECURSIVE join(_)
join(ws) ==
    IF Len(ws) = 0 THEN <<>>
    ELSE IF Len(ws) = 1 THEN ws[1]
    ELSE ws[1] \o <<" ">> \o join(Tail(ws))

-----------------------------------------------------------------------------
(* State machine: Wordplay(), load_cmudict, one get_wordplay call *)

NoCall ==
    /\ words = <<>>
    /\ norm_words = <<>>
    /\ num_mutations = 0
    /\ phonemes = None
    /\ num_tries = 0
    /\ new_words = None
    /\ mutated_phonemes = <<>>
    /\ mut_left = 0
    /\ words_set = <<>>
    /\ index_pairs = <<>>
    /\ result = None
    /\ max_tries = 0
    /\ attempts = 0

\* __init__
Init ==
    /\ word_phoneme_map = EmptyMap
    /\ phoneme_word_trie = EmptyMap
    /\ phoneme_type_map = EmptyMap
    /\ type_phoneme_map = EmptyMap
    /\ pc = "new"
    /\ NoCall

\* load_cmudict
LoadCmudict ==
    /\ pc = "new"
    /\ \E d \in Dictionaries :
         \E order \in DictOrders(d) :
            LET ix == BuildIndex(d, order)
            IN /\ word_phoneme_map' = ix.wpm
               /\ phoneme_word_trie' = ix.trie
               /\ phoneme_type_map' = ix.ptm
               /\ type_phoneme_map' = ix.tpm
    /\ pc' = "ready"
    /\ UNCHANGED <<words, norm_words, num_mutations, phonemes, num_tries,
                   new_words, mutated_phonemes, mut_left, words_set,
                   index_pairs, result, max_tries, attempts>>

\* get_wordplay, lines 25-27
GetWordplay ==
    /\ pc = "ready"
    /\ \E line \in Lines, tries \in 0..MaxTries :
         /\ words' = line
         /\ norm_words' = normalize_words(line)
         /\ num_mutations' = Max(Len(normalize_words(line)) \div 5, 1)
         /\ num_tries' = tries
         /\ max_tries' = tries
    /\ pc' = "called"
    /\ UNCHANGED <<index_vars, phonemes, new_words, mutated_phonemes, mut_left,
                   words_set, index_pairs, result, attempts>>

\* get_wordplay, lines 28-31
GetPhonemes ==
    /\ pc = "called"
    /\ \E ph \in get_phonemes(norm_words) :
         /\ phonemes' = ph
         /\ IF Falsy(ph)
            THEN pc' = "done" /\ result' = None
            ELSE pc' = "loop" /\ result' = result
    /\ new_words' = None
    /\ UNCHANGED <<index_vars, words, norm_words, num_mutations, num_tries,
                   mutated_phonemes, mut_left, words_set, index_pairs,
                   max_tries, attempts>>

\* get_wordplay, lines 32-33, and mutate, line 55
MutateCall ==
    /\ pc = "loop"
    /\ num_tries > 0
    /\ mutated_phonemes' = ListCopy(phonemes.val)
    /\ mut_left' = num_mutations
    /\ attempts' = attempts + 1
    /\ pc' = "mutate"
    /\ UNCHANGED <<index_vars, words, norm_words, num_mutations, phonemes,
                   num_tries, new_words, words_set, index_pairs, result,
                   max_tries>>

\* mutate, lines 56-66: one iteration; random.randint(0, -1) raises ValueError
MutateStep ==
    /\ pc = "mutate"
    /\ mut_left > 0
    /\ IF Len(mutated_phonemes) = 0
       THEN /\ pc' = "raised"
            /\ result' = Raised("ValueError")
            /\ UNCHANGED <<mutated_phonemes, mut_left>>
       ELSE /\ \E idx \in 1..Len(mutated_phonemes) :
                 \E pick \in MutateChoices(mutated_phonemes, idx) :
                    mutated_phonemes' = MutateEdit(mutated_phonemes, idx, pick)
            /\ mut_left' = mut_left - 1
            /\ UNCHANGED <<pc, result>>
    /\ UNCHANGED <<index_vars, words, norm_words, num_mutations, phonemes,
                   num_tries, new_words, words_set, index_pairs, max_tries,
                   attempts>>

\* mutate, lines 56 and 67
MutateReturn ==
    /\ pc = "mutate"
    /\ ~(mut_left > 0)
    /\ pc' = "mutated"
    /\ UNCHANGED <<index_vars, words, norm_words, num_mutations, phonemes,
                   num_tries, new_words, mutated_phonemes, mut_left, words_set,
                   index_pairs, result, max_tries, attempts>>

\* phonemes_to_words, lines 71-74; pop(0) on an empty list raises IndexError
PhonemesToWords ==
    /\ pc = "mutated"
    /\ IF Len(mutated_phonemes) = 0
       THEN /\ pc' = "raised"
            /\ result' = Raised("IndexError")
            /\ UNCHANGED words_set
       ELSE /\ \E ws \in phonemes_to_words_recurse(<<>>, mutated_phonemes, <<>>, norm_words) :
                 words_set' = ws
            /\ pc' = "decoded"
            /\ UNCHANGED result
    /\ UNCHANGED <<index_vars, words, norm_words, num_mutations, phonemes,
                   num_tries, new_words, mutated_phonemes, mut_left,
                   index_pairs, max_tries, attempts>>

\* phonemes_to_words, lines 75-77
PickWords ==
    /\ pc = "decoded"
    /\ IF Len(words_set) > 0
       THEN \E ws \in pick_words(words_set, norm_words) : new_words' = Some(ws)
       ELSE new_words' = None
    /\ pc' = "check"
    /\ UNCHANGED <<index_vars, words, norm_words, num_mutations, phonemes,
                   num_tries, mutated_phonemes, mut_left, words_set,
                   index_pairs, result, max_tries, attempts>>

\* the loop test without the break
LoopBreakNever(nw, norm) == FALSE

\* get_wordplay, line 35
LoopBreak(nw, norm) == ~Falsy(nw) /\ nw.val # norm

\* get_wordplay, lines 35-37
LoopCheck ==
    /\ pc = "check"
    /\ IF LoopBreak(new_words, norm_words)
       THEN pc' = "after" /\ num_tries' = num_tries
       ELSE pc' = "loop" /\ num_tries' = num_tries - 1
    /\ UNCHANGED <<index_vars, words, norm_words, num_mutations, phonemes,
                   new_words, mutated_phonemes, mut_left, words_set,
                   index_pairs, result, max_tries, attempts>>

\* get_wordplay, lines 32 (loop exit) and 38-40, with stylize
Return ==
    /\ \/ pc = "after"
       \/ pc = "loop" /\ ~(num_tries > 0)
    /\ IF Falsy(new_words)
       THEN /\ result' = None
            /\ UNCHANGED index_pairs
       ELSE /\ index_pairs' = stylize_index_pairs(Len(new_words.val), Len(words))
            /\ result' = Str(join(stylize(new_words.val, words)))
    /\ pc' = "done"
    /\ UNCHANGED <<index_vars, words, norm_words, num_mutations, phonemes,
                   num_tries, new_words, mutated_phonemes, mut_left, words_set,
                   max_tries, attempts>>

Next ==
    \/ LoadCmudict
    \/ GetWordplay
    \/ GetPhonemes
    \/ MutateCall
    \/ MutateStep
    \/ MutateReturn
    \/ PhonemesToWords
    \/ PickWords
    \/ LoopCheck
    \/ Return

Spec == Init /\ [][Next]_vars

\* the call runs to completion: no step of it is postponed forever
FairSpec == Spec /\ WF_vars(Next)

-----------------------------------------------------------------------------
(* Specifications of single operations, over all their inputs *)

MaxNewWords == 4
MaxOrigWords == 3

HasIndex(ix) ==
    /\ word_phoneme_map = ix.wpm
    /\ phoneme_word_trie = ix.trie
    /\ phoneme_type_map = ix.ptm
    /\ type_phoneme_map = ix.tpm

\* mutate(s, c) after line 55, for every classed sequence s and count c
InitMutate ==
    /\ \E ix \in Indexes : HasIndex(ix)
    /\ \E s \in SeqsUpTo(Phonemes, 0, MaxLen), c \in 0..MaxCount :
         /\ phonemes = Some(s)
         /\ num_mutations = c
         /\ mutated_phonemes = ListCopy(s)
         /\ mut_left = c
    /\ pc = "mutate"
    /\ words = <<>>
    /\ norm_words = <<>>
    /\ num_tries = 0
    /\ new_words = None
    /\ words_set = <<>>
    /\ index_pairs = <<>>
    /\ result = None
    /\ max_tries = 0
    /\ attempts = 0

SpecMutate == InitMutate /\ [][MutateStep \/ MutateReturn]_vars

\* phonemes_to_words(P, norm_words) for every sequence P and word list
InitDecode ==
    /\ \E ix \in Indexes : HasIndex(ix)
    /\ norm_words \in SeqsUpTo(Vocabulary, 1, MaxWords)
    /\ mutated_phonemes \in SeqsUpTo(Phonemes, 0, MaxLen)
    /\ pc = "mutated"
    /\ words = <<>>
    /\ num_mutations = 0
    /\ phonemes = None
    /\ num_tries = 0
    /\ new_words = None
    /\ mut_left = 0
    /\ words_set = <<>>
    /\ index_pairs = <<>>
    /\ result = None
    /\ max_tries = 0
    /\ attempts = 0

SpecDecode == InitDecode /\ [][PhonemesToWords]_vars

StyleTokens == {t \in Tokens : normalize_word(t) # <<>>}

\* stylize(new_words, words) at line 40, for every pair of non-empty lists
InitStylize ==
    /\ HasIndex(BuildIndex(DictPrefix, <<wA, wB, wAB>>))
    /\ words \in SeqsUpTo(StyleTokens, 1, MaxOrigWords)
    /\ norm_words = normalize_words(words)
    /\ \E ws \in SeqsUpTo({wA, wAB}, 1, MaxNewWords) : new_words = Some(ws)
    /\ pc = "after"
    /\ num_mutations = 1
    /\ phonemes = None
    /\ num_tries = 0
    /\ mutated_phonemes = <<>>
    /\ mut_left = 0
    /\ words_set = <<>>
    /\ index_pairs = <<>>
    /\ result = None
    /\ max_tries = 0
    /\ attempts = 0

SpecStylize == InitStylize /\ [][Return]_vars

-----------------------------------------------------------------------------
(* Properties *)

Called == pc \notin {"new", "ready"}

Sequenced == pc \notin {"new", "ready", "called"}

\* ws is a list of dictionary words and P is the concatenation of one
\* pronunciation variant of each
RECURSIVE Spells(_, _)
Spells(ws, P) ==
    IF ws = <<>> THEN P = <<>>
    ELSE /\ Head(ws) \in DOMAIN word_phoneme_map
         /\ \E v \in Range(word_phoneme_map[Head(ws)]) :
               /\ Len(v) <= Len(P)
               /\ SubSeq(P, 1, Len(v)) = v
               /\ Spells(Tail(ws), SubSeq(P, Len(v) + 1, Len(P)))

ClassOf(p) == phoneme_type_map[p]

SingleMember(p) == Len(type_phoneme_map[ClassOf(p)]) = 1

\* r is s with some single-member-class phonemes removed and every other
\* position holding a phoneme of the class it held in s
RECURSIVE ClassPreserving(_, _)
ClassPreserving(s, r) ==
    IF s = <<>> THEN r = <<>>
    ELSE \/ SingleMember(Head(s)) /\ ClassPreserving(Tail(s), r)
         \/ /\ r # <<>>
            /\ ClassOf(Head(r)) = ClassOf(Head(s))
            /\ SingleMember(Head(s)) => Head(r) = Head(s)
            /\ ClassPreserving(Tail(s), Tail(r))

\* the selection of this attempt exists and differs from the normalized input
Accepting == new_words.kind = "list" /\ new_words.val # <<>> /\ new_words.val # norm_words

\* C1: get_wordplay returns None or a string built from a selected word list
\* that differs from the normalized input; in particular it returns None when
\* no attempt selected a differing word list.
C1_NoneOrDiffering ==
    pc = "done" =>
        \/ result = None
        \/ /\ result.kind = "str"
           /\ new_words.kind = "list"
           /\ new_words.val # norm_words

\* C2: when a normalized word of the line (the empty string included) is not
\* in word_phoneme_map, get_wordplay makes no mutate/decode/select attempt and
\* returns None, whatever num_tries is.
C2_UnknownWordNoAttempt ==
    (Called /\ \E i \in 1..Len(norm_words) : norm_words[i] \notin DOMAIN word_phoneme_map)
        => /\ attempts = 0
           /\ pc \in {"called", "done"}
           /\ pc = "done" => result = None

C2_Witness ==
    /\ pc = "done"
    /\ max_tries > 0
    /\ Len(norm_words) = 2
    /\ norm_words[1] \in DOMAIN word_phoneme_map
    /\ norm_words[2] = <<>>
    /\ result = None

\* C3: decoding a concatenation of one variant of each of the known words
\* w1..wn, with w1..wn as the original words, yields a candidate set that
\* contains w1..wn, homophones included.
C3_DecodeComplete ==
    (pc = "decoded" /\ Spells(norm_words, mutated_phonemes))
        => norm_words \in Range(words_set)

\* C4 as stated: the first generated word pairs with original token 0, the
\* last with token num_orig_words-1, an interior word i with
\* min(i, num_orig_words-2), and every j lies in 0..num_orig_words-1.
C4_AlignmentAsStated ==
    (pc = "done" /\ result.kind = "str") =>
        LET n == Len(new_words.val)
            m == Len(words)
        IN /\ Len(index_pairs) = n
           /\ \A k \in 1..n :
                LET i == index_pairs[k][1]
                    j == index_pairs[k][2]
                IN /\ i = k - 1
                   /\ i = 0 => j = 0
                   /\ i = n - 1 => j = m - 1
                   /\ (0 < i /\ i < n - 1) => j = Min(i, m - 2)
                   /\ j \in 0..(m - 1)

\* C4 amended: the last generated word (also when it is the only one) pairs
\* with token num_orig_words-1, the first of two or more with token 0, an
\* interior word i with min(i, num_orig_words-2); j lies in
\* 0..num_orig_words-1 except that an interior word gets j = -1 when there is
\* one original token, which Python resolves to that token.
C4_AlignmentAmended ==
    (pc = "done" /\ result.kind = "str") =>
        LET n == Len(new_words.val)
            m == Len(words)
        IN /\ Len(index_pairs) = n
           /\ \A k \in 1..n :
                LET i == index_pairs[k][1]
                    j == index_pairs[k][2]
                IN /\ i = k - 1
                   /\ (i = 0 /\ n > 1) => j = 0
                   /\ i = n - 1 => j = m - 1
                   /\ (0 < i /\ i < n - 1) => j = Min(i, m - 2)
                   /\ \/ j \in 0..(m - 1)
                      \/ j = -1 /\ m = 1 /\ 0 < i /\ i < n - 1

C4_Witness ==
    /\ pc = "done"
    /\ result.kind = "str"
    /\ Len(new_words.val) = 4
    /\ Len(words) = 3
    /\ index_pairs = << <<0, 0>>, <<1, 1>>, <<2, 1>>, <<3, 2>> >>

\* C5: when mutate(s, c) completes, its result r has
\* len(s) - c <= len(r) <= len(s), and r = s when c = 0.
C5_MutateLength ==
    pc = "mutated" =>
        /\ Len(phonemes.val) - num_mutations <= Len(mutated_phonemes)
        /\ Len(mutated_phonemes) <= Len(phonemes.val)
        /\ num_mutations = 0 => mutated_phonemes = phonemes.val

C5_Witness ==
    /\ pc = "mutated"
    /\ num_mutations = 2
    /\ Len(phonemes.val) = 3
    /\ Len(mutated_phonemes) = 1

\* C6: get_wordplay ends, it makes at most num_tries attempts, a rejected
\* attempt decrements the counter, no attempt starts once the counter is 0,
\* and the first attempt whose selection exists and differs from the
\* normalized input is the last attempt.
C6_BoundedRetry ==
    /\ <>(pc \in {"done", "raised"})
    /\ [](attempts <= max_tries)
    /\ [](pc \in {"loop", "done"} /\ Sequenced /\ ~Falsy(phonemes) /\ result.kind # "str"
            => attempts = max_tries - num_tries)
    /\ [][(pc = "check" /\ ~Accepting /\ pc' # pc) => num_tries' = num_tries - 1]_vars
    /\ [][(Called /\ num_tries = 0) => attempts' = attempts]_vars
    /\ [][(pc = "check" /\ Accepting /\ pc' # pc) => pc' = "after"]_vars
    /\ [][(pc \in {"after", "done", "raised"}) => attempts' = attempts]_vars

C6_Witness ==
    /\ pc = "done"
    /\ max_tries = 2
    /\ attempts = 1
    /\ num_tries = 2
    /\ result.kind = "str"

\* C7: the phoneme sequence of the call is one variant per normalized word,
\* no later step of the call changes it, and every attempt's mutation starts
\* from it.
C7_FreshMutation ==
    /\ [](Sequenced /\ ~Falsy(phonemes) => Spells(norm_words, phonemes.val))
    /\ [][Sequenced => phonemes' = phonemes]_vars
    /\ []((pc = "mutate" /\ mut_left = num_mutations) => mutated_phonemes = phonemes.val)

C7_Witness ==
    /\ pc = "mutate"
    /\ mut_left = num_mutations
    /\ attempts = 2
    /\ new_words = None
    /\ words_set = <<>>
    /\ mutated_phonemes = phonemes.val

\* C8: one edit of mutate deletes the phoneme at one index when its class has
\* a single member and otherwise overwrites it with a member of its class
\* (possibly itself); so the result is the input with only single-member-class
\* phonemes removed and the classes of the others kept in order.
C8_ClassAwareEdits ==
    /\ [][(pc = "mutate" /\ mut_left' = mut_left - 1) =>
            \E idx \in 1..Len(mutated_phonemes) :
                IF SingleMember(mutated_phonemes[idx])
                THEN mutated_phonemes' = RemoveAt(mutated_phonemes, idx)
                ELSE \E q \in Phonemes :
                        /\ ClassOf(q) = ClassOf(mutated_phonemes[idx])
                        /\ mutated_phonemes' = [mutated_phonemes EXCEPT ![idx] = q]]_vars
    /\ [](pc = "mutated" => ClassPreserving(phonemes.val, mutated_phonemes))

\* two edits of <<K, E>> that leave <<K>>: E, alone in its class, was deleted
\* and K was overwritten with K
C8_Witness ==
    /\ pc = "mutated"
    /\ num_mutations = 2
    /\ phonemes.val = <<"K", "E">>
    /\ mutated_phonemes = <<"K">>
    /\ SingleMember("E")
    /\ ~SingleMember("K")

\* C9: every candidate decode returns for P is a non-empty list of dictionary
\* words, one variant of each of which concatenates exactly to P.
C9_DecodeSound ==
    pc = "decoded" =>
        \A k \in 1..Len(words_set) :
            /\ Len(words_set[k]) >= 1
            /\ Spells(words_set[k], mutated_phonemes)

C9_Witness ==
    /\ pc = "decoded"
    /\ mutated_phonemes = <<"K", "B", "K">>
    /\ Len(words_set) = 2
    /\ <<wAB>> \in Range(words_set)
    /\ <<wA, wB, wA>> \in Range(words_set)

\* C10: the sequence handed to the decoder has at least one phoneme, so the
\* decoder's first pop never fails.
C10_DecodeInputNonEmpty ==
    /\ pc = "mutated" => Len(mutated_phonemes) >= 1
    /\ result.kind # "IndexError"

====
